---- MODULE Spec2Model ----
(***************************************************************************)
(* A model of grr/lib/rdfvalue.py (Python 2): the RDFValue hierarchy.      *)
(*                                                                         *)
(*   - the scalar values (RDFBytes, RDFString, RDFSHAValue, RDFInteger,    *)
(*     RDFDatetime, RDFDatetimeSeconds) and their parse/serialize pair,    *)
(*   - RDFURN, character by character (urlparse, path normalisation),      *)
(*   - RDFProto and RepeatedFieldHelper over a heap of protobuf messages.  *)
(*                                                                         *)
(* Python values are tagged records [t, v]: t is the Python type and v a   *)
(* sequence (the bytes of a str, the code points of a unicode, the one     *)
(* number of an int, nothing for None).                                    *)
(***************************************************************************)
EXTENDS Integers, Sequences, FiniteSets, TLC

VARIABLES rt, urn, urn2, uop, heap, inner, wr, op, nested

vars == <<rt, urn, urn2, uop, heap, inner, wr, op, nested>>
urnVars == <<urn, urn2, uop>>
protoVars == <<heap, inner, wr, op, nested>>

\* F applied to the value of e: e is evaluated once, whatever F does with it.
Bind(e, F(_)) == CHOOSE r \in {F(x) : x \in {e}} : TRUE

(***************************************************************************)
(* Python primitives                                                       *)
(***************************************************************************)

PyStr(s) == [t |-> "str", v |-> s]
PyUnicode(s) == [t |-> "unicode", v |-> s]
PyInt(n) == [t |-> "int", v |-> <<n>>]
PyNone == [t |-> "none", v |-> <<>>]

\* bool(x): the test of "if string:" and "if count:".
PyTruthy(x) ==
  CASE x.t = "int" -> x.v[1] # 0
    [] x.t = "none" -> FALSE
    [] OTHER -> Len(x.v) > 0

IsAscii(s) == \A i \in 1..Len(s) : s[i] < 128

\* a == b on primitives.  A str and a unicode are compared after decoding the
\* str as ASCII; when that fails Python 2 warns and answers False.
PyEq(a, b) ==
  CASE a.t = b.t -> a.v = b.v
    [] a.t = "str" /\ b.t = "unicode" -> IsAscii(a.v) /\ a.v = b.v
    [] a.t = "unicode" /\ b.t = "str" -> IsAscii(b.v) /\ a.v = b.v
    [] OTHER -> FALSE

\* The UTF-8 bytes of one code point: one byte below 128, two below 2048.
Utf8Char(c) == IF c < 128 THEN <<c>> ELSE <<192 + (c \div 64), 128 + (c % 64)>>

\* unicode.encode("utf8")
RECURSIVE Utf8Encode(_)
Utf8Encode(s) ==
  IF s = <<>> THEN <<>>
  ELSE Utf8Char(Head(s)) \o Bind(Tail(s), LAMBDA rest : Utf8Encode(rest))

RECURSIVE DecDigits(_)
DecDigits(n) ==
  IF n < 10 THEN <<48 + n>>
  ELSE Bind(n \div 10, LAMBDA q : DecDigits(q)) \o <<48 + (n % 10)>>

\* str(n) of an int.
IntToStr(n) == IF n < 0 THEN <<45>> \o DecDigits(0 - n) ELSE DecDigits(n)

IsDigits(s) == Len(s) > 0 /\ \A i \in 1..Len(s) : s[i] \in 48..57

RECURSIVE DecValue(_)
DecValue(s) ==
  IF s = <<>> THEN 0
  ELSE 10 * Bind(SubSeq(s, 1, Len(s) - 1), LAMBDA front : DecValue(front))
       + (s[Len(s)] - 48)

\* int(s) of a text: a signed decimal, or a ValueError.
PyIntOfText(s) ==
  IF Len(s) > 0 /\ s[1] \in {43, 45}
  THEN IF IsDigits(Tail(s))
       THEN [ok |-> TRUE, exc |-> "none",
             v |-> Bind(Tail(s), LAMBDA d :
                     IF s[1] = 45 THEN 0 - DecValue(d) ELSE DecValue(d))]
       ELSE [ok |-> FALSE, v |-> 0, exc |-> "ValueError"]
  ELSE IF IsDigits(s) THEN [ok |-> TRUE, v |-> DecValue(s), exc |-> "none"]
       ELSE [ok |-> FALSE, v |-> 0, exc |-> "ValueError"]

\* int(x): an int is kept, a text is read as a signed decimal (ValueError
\* otherwise), None, a list or a message is a TypeError.
PyIntOf(x) ==
  CASE x.t = "int" -> [ok |-> TRUE, v |-> x.v[1], exc |-> "none"]
    [] x.t \in {"str", "unicode"} -> PyIntOfText(x.v)
    [] OTHER -> [ok |-> FALSE, v |-> 0, exc |-> "TypeError"]

\* utils.SmartStr: a unicode is encoded as UTF-8, anything else goes through str().
SmartStr(x) ==
  CASE x.t = "unicode" -> PyStr(Utf8Encode(x.v))
    [] x.t = "int" -> PyStr(IntToStr(x.v[1]))
    [] OTHER -> x

(***************************************************************************)
(* The scalar values.  A value is its class and its _value.                *)
(***************************************************************************)

ScalarClasses ==
  {"RDFBytes", "RDFString", "RDFSHAValue", "RDFInteger", "RDFDatetime",
   "RDFDatetimeSeconds"}

IntegerClasses == {"RDFInteger", "RDFDatetime", "RDFDatetimeSeconds"}

Failed(e) == [ok |-> FALSE, v |-> PyNone, exc |-> e]
Done(x) == [ok |-> TRUE, v |-> x, exc |-> "none"]

\* int(x) as the value of an integer class, or the exception of int().
AsInteger(x) ==
  Bind(PyIntOf(x), LAMBDA r : IF r.ok THEN Done(PyInt(r.v)) ELSE Failed(r.exc))

\* RDFBytes.ParseFromString stores its argument as it is.
RDFBytes_ParseFromString(string) == Done(string)

\* RDFInteger.ParseFromString: zero for an empty payload, int() otherwise.
RDFInteger_ParseFromString(string) ==
  IF PyTruthy(string) THEN AsInteger(string) ELSE Done(PyInt(0))

ParseFromString(cls, string) ==
  IF cls \in IntegerClasses THEN RDFInteger_ParseFromString(string)
  ELSE RDFBytes_ParseFromString(string)

\* SerializeToString: RDFBytes and RDFSHAValue return _value, RDFString and its
\* subclasses (the integers and the timestamps) return utils.SmartStr(_value).
SerializeToString(cls, value) ==
  IF cls \in {"RDFBytes", "RDFSHAValue"} THEN value ELSE SmartStr(value)

\* RDFDatetime.__init__ for a number or a text holding an integer; the
\* human-readable branch is not among the initializers drawn here.
RDFDatetime_init(initializer) == AsInteger(initializer)

\* cls(initializer) for an initializer that is not None: RDFValue.__init__ hands
\* it to ParseFromString; RDFDatetime reads it itself.
NewScalar(cls, initializer) ==
  IF cls \in {"RDFDatetime", "RDFDatetimeSeconds"} THEN RDFDatetime_init(initializer)
  ELSE ParseFromString(cls, initializer)

\* fresh == v, for two values of one class: RDFBytes.__eq__ and
\* RDFInteger.__eq__ compare self._value with the other OBJECT; the primitive
\* does not know it, so Python asks the reflected other.__eq__(self._value),
\* which compares the two primitives.
ScalarEq(selfValue, otherValue) == PyEq(otherValue, selfValue)

(***************************************************************************)
(* Text of the URN part: a sequence of one-character strings.              *)
(***************************************************************************)

SLASH == <<"/">>
AFF4 == <<"a", "f", "f", "4">>

\* s.find(c), counted from 1; 0 when c is not in s.
Find(s, c) ==
  IF \E i \in 1..Len(s) : s[i] = c
  THEN CHOOSE i \in 1..Len(s) : s[i] = c /\ \A j \in 1..(i - 1) : s[j] # c
  ELSE 0

\* s.split(sep, 1) when sep is in s and <<s, "">> when it is not.
SplitOnce(s, sep) ==
  Bind(Find(s, sep), LAMBDA i :
    IF i = 0 THEN [head |-> s, tail |-> <<>>]
    ELSE [head |-> SubSeq(s, 1, i - 1), tail |-> SubSeq(s, i + 1, Len(s))])

\* s.split(sep, maxsplit): at most maxsplit cuts from the left; maxsplit < 0
\* cuts everywhere.
RECURSIVE PySplit(_, _, _)
PySplit(s, sep, maxsplit) ==
  IF maxsplit = 0 \/ Find(s, sep) = 0 THEN <<s>>
  ELSE Bind(SplitOnce(s, sep), LAMBDA cut :
         Bind(IF maxsplit < 0 THEN maxsplit ELSE maxsplit - 1, LAMBDA left :
           <<cut.head>> \o PySplit(cut.tail, sep, left)))

\* sep.join(parts)
RECURSIVE PyJoin(_, _)
PyJoin(parts, sep) ==
  IF parts = <<>> THEN <<>>
  ELSE IF Len(parts) = 1 THEN parts[1]
  ELSE parts[1] \o sep \o Bind(Tail(parts), LAMBDA rest : PyJoin(rest, sep))

\* filter(None, parts): the non-empty strings, in order.
RECURSIVE FilterNonEmpty(_)
FilterNonEmpty(parts) ==
  IF parts = <<>> THEN <<>>
  ELSE (IF Head(parts) = <<>> THEN <<>> ELSE <<Head(parts)>>)
       \o Bind(Tail(parts), LAMBDA rest : FilterNonEmpty(rest))

\* s.replace("//", "/"): non-overlapping, from the left.
RECURSIVE ReplaceDoubleSlash(_)
ReplaceDoubleSlash(s) ==
  IF Len(s) < 2 THEN s
  ELSE IF s[1] = "/" /\ s[2] = "/"
       THEN SLASH \o Bind(SubSeq(s, 3, Len(s)), LAMBDA rest : ReplaceDoubleSlash(rest))
       ELSE <<s[1]>> \o Bind(Tail(s), LAMBDA rest : ReplaceDoubleSlash(rest))

\* s.rstrip("/")
RStripSlash(s) ==
  Bind({i \in 1..Len(s) : s[i] # "/"}, LAMBDA keep :
    IF keep = {} THEN <<>>
    ELSE SubSeq(s, 1, CHOOSE i \in keep : \A j \in keep : j <= i))

Lower(c) == IF c = "A" THEN "a" ELSE c

LowerStr(s) == [i \in 1..Len(s) |-> Lower(s[i])]

DigitChars == {"0", "1", "2", "3", "4", "5", "6", "7", "8", "9"}

\* urlparse.scheme_chars: letters, digits and "+-.".
SchemeChars == {"a", "b", "c", "f", "h", "x", "A"} \cup DigitChars \cup {"+", "-", "."}

(***************************************************************************)
(* urlparse (the standard library, Python 2.7)                             *)
(***************************************************************************)

\* The scheme of urlsplit: the text before the first ":" when it is not empty,
\* is made of scheme characters, and what follows is not a port number.
SplitScheme(url, default) ==
  Bind(SplitOnce(url, ":"), LAMBDA cut :
    IF /\ Find(url, ":") > 1
       /\ \A k \in 1..Len(cut.head) : cut.head[k] \in SchemeChars
       /\ (cut.tail = <<>> \/ \E k \in 1..Len(cut.tail) : cut.tail[k] \notin DigitChars)
    THEN [scheme |-> LowerStr(cut.head), rest |-> cut.tail]
    ELSE [scheme |-> default, rest |-> url])

\* _splitnetloc(url, 2) when url starts with "//": the network location ends
\* at the first of "/?#".
SplitNetloc(url) ==
  IF Len(url) >= 2 /\ url[1] = "/" /\ url[2] = "/"
  THEN Bind({i \in 3..Len(url) : url[i] \in {"/", "?", "#"}}, LAMBDA stops :
         Bind(IF stops = {} THEN Len(url) + 1
              ELSE CHOOSE i \in stops : \A j \in stops : i <= j, LAMBDA delim :
           [netloc |-> SubSeq(url, 3, delim - 1), rest |-> SubSeq(url, delim, Len(url))]))
  ELSE [netloc |-> <<>>, rest |-> url]

\* urlparse.urlparse(url, scheme=default): scheme, network location, then the
\* fragment after "#" and the query after "?".  No scheme of the model is in
\* uses_params.
UrlParse(url, default) ==
  Bind(SplitScheme(url, default), LAMBDA s :
    Bind(SplitNetloc(s.rest), LAMBDA n :
      Bind(SplitOnce(n.rest, "#"), LAMBDA f :
        Bind(SplitOnce(f.head, "?"), LAMBDA q :
          [scheme |-> s.scheme, netloc |-> n.netloc, path |-> q.head,
           query |-> q.tail, fragment |-> f.tail]))))

\* urlparse.uses_netloc, as far as the model's schemes go.
UsesNetloc == {<<"h", "t", "t", "p">>}

\* The "//netloc/path" part of urlunsplit.
UnsplitNetloc(u) ==
  IF \/ u.netloc # <<>>
     \/ /\ u.scheme # <<>>
        /\ u.scheme \in UsesNetloc
        /\ ~(Len(u.path) >= 2 /\ u.path[1] = "/" /\ u.path[2] = "/")
  THEN SLASH \o SLASH \o u.netloc
       \o (IF u.path # <<>> /\ u.path[1] # "/" THEN SLASH ELSE <<>>)
       \o u.path
  ELSE u.path

\* ParseResult.geturl(): urlunparse of the five components.
GetUrl(u) ==
  (IF u.scheme # <<>> THEN u.scheme \o <<":">> ELSE <<>>)
  \o UnsplitNetloc(u)
  \o (IF u.query # <<>> THEN <<"?">> \o u.query ELSE <<>>)
  \o (IF u.fragment # <<>> THEN <<"#">> \o u.fragment ELSE <<>>)

(***************************************************************************)
(* utils.NormalizePath and utils.JoinPath                                  *)
(***************************************************************************)

DOT == <<".">>
DOTDOT == <<".", ".">>

\* One segment more: "" and "." are dropped, ".." drops the segment before it
\* and is anchored at the top.
ResolveSegment(acc, seg) ==
  CASE seg \in {<<>>, DOT} -> acc
    [] seg = DOTDOT -> IF acc = <<>> THEN acc ELSE SubSeq(acc, 1, Len(acc) - 1)
    [] OTHER -> Append(acc, seg)

\* The segments that are left of the first n of segs.
RECURSIVE ResolveSegments(_, _)
ResolveSegments(segs, n) ==
  IF n = 0 THEN <<>>
  ELSE Bind(ResolveSegments(segs, n - 1), LAMBDA acc : ResolveSegment(acc, segs[n]))

NormalizePath(path) ==
  IF path = <<>> THEN SLASH
  ELSE Bind(PySplit(path, "/", -1), LAMBDA segs :
         Bind(ResolveSegments(segs, Len(segs)), LAMBDA kept :
           SLASH \o PyJoin(kept, SLASH)))

JoinPath(stem, part) ==
  Bind(NormalizePath(part), LAMBDA norm :
    Bind(ReplaceDoubleSlash(stem \o norm), LAMBDA single :
      Bind(RStripSlash(single), LAMBDA result :
        IF result = <<>> THEN SLASH ELSE result)))

(***************************************************************************)
(* RDFURN: the parsed components (_urn) and the text (_string_urn).        *)
(***************************************************************************)

Components == {"scheme", "netloc", "path", "query", "fragment"}

\* The object with _urn = u: _string_urn is recomputed from it.
WithString(u) ==
  [scheme |-> u.scheme, netloc |-> u.netloc, path |-> u.path, query |-> u.query,
   fragment |-> u.fragment, string_urn |-> GetUrl(u)]

RDFURN_ParseFromString(initializer) ==
  Bind(UrlParse(initializer, AFF4), LAMBDA u :
    Bind(NormalizePath(u.path), LAMBDA p :
      WithString([u EXCEPT !.path = p,
                           !.scheme = IF u.scheme = <<>> THEN AFF4 ELSE u.scheme])))

\* str(self)
RDFURN_SerializeToString(self) == self.string_urn

\* RDFURN.Copy: a new RDFURN parsed from str(self).
RDFURN_Copy(self) == RDFURN_ParseFromString(RDFURN_SerializeToString(self))

\* namedtuple._replace(**kwargs), kwargs a function from component names.
Replace(self, kwargs) ==
  [c \in Components |-> IF c \in DOMAIN kwargs THEN kwargs[c] ELSE self[c]]

\* RDFURN.Update(url, **kwargs); url = <<>> stands for None and for "".
RDFURN_Update(self, url, kwargs) ==
  Bind(IF url # <<>> THEN RDFURN_ParseFromString(url) ELSE self, LAMBDA base :
    Bind(Replace(base, kwargs), LAMBDA u : WithString(u)))

\* Add that takes every text for a fully qualified URN.
RDFURN_AddText_Absolute(self, text) == RDFURN_ParseFromString(text)

\* Add with the test of the scheme turned around.
RDFURN_AddText_Inverted(self, text) ==
  IF UrlParse(text, <<>>).scheme = AFF4
  THEN Bind(RDFURN_Copy(self), LAMBDA result :
         Bind(JoinPath(self.path, text), LAMBDA joined :
           RDFURN_Update(result, <<>>, [c \in {"path"} |-> joined])))
  ELSE RDFURN_ParseFromString(text)

\* RDFURN.Add(urn) for a text urn.
RDFURN_AddText(self, text) ==
  IF UrlParse(text, <<>>).scheme # AFF4
  THEN Bind(RDFURN_Copy(self), LAMBDA result :
         Bind(JoinPath(self.path, text), LAMBDA joined :
           RDFURN_Update(result, <<>>, [c \in {"path"} |-> joined])))
  ELSE RDFURN_ParseFromString(text)

\* RDFURN.Add(urn) for an RDFURN urn.
RDFURN_AddURN(self, other) == other

\* RDFURN.Split(count); count = 0 stands for None (and is as falsy).
RDFURN_Split(self, count) ==
  IF count # 0
  THEN Bind(FilterNonEmpty(PySplit(self.path, "/", count)), LAMBDA result :
         IF Len(result) < count
         THEN result \o [i \in 1..(count - Len(result)) |-> <<>>]
         ELSE result)
  ELSE FilterNonEmpty(PySplit(self.path, "/", -1))

(***************************************************************************)
(* Protobuf messages.  The schema of the model:                            *)
(*                                                                         *)
(*   message Inner { optional int64 x = 1; }                               *)
(*   message Outer { optional int64 num = 1;  repeated int64 vals = 2;     *)
(*                   optional Inner sub = 3;  repeated Inner subs = 4; }   *)
(*                                                                         *)
(* RDFOuter and RDFInner are the RDFProto subclasses over them, and        *)
(* RDFOuter.rdf_map = {"subs": RDFInner}.  heap[i] is an Outer message     *)
(* object; its nested message is the Inner object inner[heap[i].sub].      *)
(* inner[CallerInner] is an Inner message the caller holds.  An optional   *)
(* scalar is <<>> when unset and <<n>> when set.                           *)
(***************************************************************************)

Fields == {"num", "vals", "sub", "subs"}

\* field_descriptor.label == LABEL_REPEATED, field_descriptor.type == TYPE_MESSAGE
IsRepeated(attr) == attr \in {"vals", "subs"}
IsMessage(attr) == attr \in {"sub", "subs"}

MsgIds == {1, 2}
CallerInner == 0

EmptyInner == [x |-> <<>>]

EmptyOuter(i) ==
  [num |-> <<>>, vals |-> <<>>, subs |-> <<>>, has_sub |-> FALSE, sub |-> i]

\* The value of message i: its fields, the nested message by value.
Content(st, i) ==
  [num |-> st.heap[i].num, vals |-> st.heap[i].vals, subs |-> st.heap[i].subs,
   has_sub |-> st.heap[i].has_sub, sub |-> st.inner[st.heap[i].sub]]

EmptyContent ==
  [num |-> <<>>, vals |-> <<>>, subs |-> <<>>, has_sub |-> FALSE, sub |-> EmptyInner]

\* Message.SerializeToString: the set fields in field-number order, each an
\* entry <<field number, payload>>; a nested message's payload is its own
\* serialization.
Inner_SerializeToString(c) == IF c.x = <<>> THEN <<>> ELSE << <<1, c.x>> >>

Outer_SerializeToString(c) ==
  (IF c.num = <<>> THEN <<>> ELSE << <<1, c.num>> >>)
  \o [k \in 1..Len(c.vals) |-> <<2, <<c.vals[k]>> >>]
  \o (IF c.has_sub THEN << <<3, Inner_SerializeToString(c.sub)>> >> ELSE <<>>)
  \o [k \in 1..Len(c.subs) |-> <<4, Inner_SerializeToString(c.subs[k])>>]

\* Message.MergeFromString of an Inner: the last entry of the field wins.
Inner_MergeFromString(c, bytes) ==
  IF bytes = <<>> THEN c ELSE [x |-> bytes[Len(bytes)][2]]

\* One entry merged into an Outer.
Outer_MergeEntry(c, e) ==
  CASE e[1] = 1 -> [c EXCEPT !.num = e[2]]
    [] e[1] = 2 -> [c EXCEPT !.vals = Append(@, e[2][1])]
    [] e[1] = 3 -> [c EXCEPT !.has_sub = TRUE, !.sub = Inner_MergeFromString(@, e[2])]
    [] OTHER -> [c EXCEPT !.subs = Append(@, Inner_MergeFromString(EmptyInner, e[2]))]

\* Message.MergeFromString on the first n entries, in order.
RECURSIVE Outer_MergeFromString(_, _, _)
Outer_MergeFromString(c, bytes, n) ==
  IF n = 0 THEN c
  ELSE Bind(Outer_MergeFromString(c, bytes, n - 1), LAMBDA merged :
         Outer_MergeEntry(merged, bytes[n]))

\* Message.ParseFromString: Clear(), then MergeFromString.
Outer_ParseFromString(bytes) == Outer_MergeFromString(EmptyContent, bytes, Len(bytes))

\* The store with message i holding the value c, in a nested object of its own.
WithContent(st, i, c) ==
  [heap |-> [st.heap EXCEPT ![i] = [num |-> c.num, vals |-> c.vals, subs |-> c.subs,
                                    has_sub |-> c.has_sub, sub |-> i]],
   inner |-> [st.inner EXCEPT ![i] = c.sub]]

(***************************************************************************)
(* Values handed to a field: a primitive, a list, or a message: "proto"    *)
(* is the native Inner object inner[r], "rdfproto" an RDFInner over it,    *)
(* "rdfouter" an RDFOuter over heap[i].                                    *)
(***************************************************************************)

PyList(items) == [t |-> "list", v |-> items]
NativeInner(r) == [t |-> "proto", v |-> <<r>>]
RDFInnerOf(r) == [t |-> "rdfproto", v |-> <<r>>]
RDFOuterOf(i) == [t |-> "rdfouter", v |-> <<i>>]

\* What "for item in value" yields: the elements of a list, the characters of
\* a text; anything else is not iterable.
Iterable(value) == value.t \in {"list", "str", "unicode"}

Items(value) ==
  IF value.t = "list" THEN value.v
  ELSE [k \in 1..Len(value.v) |-> [t |-> value.t, v |-> <<value.v[k]>>]]

\* The result of a write: the store after it and the exception it raised.
Wrote(st, exc) == [heap |-> st.heap, inner |-> st.inner, exc |-> exc]

Stored(r) == [heap |-> r.heap, inner |-> r.inner]

\* Message.ClearField(attr): a cleared nested message is a new, empty one.
ClearField(st, i, attr) ==
  CASE attr = "num" -> [st EXCEPT !.heap[i].num = <<>>]
    [] attr = "vals" -> [st EXCEPT !.heap[i].vals = <<>>]
    [] attr = "subs" -> [st EXCEPT !.heap[i].subs = <<>>]
    [] OTHER -> [st EXCEPT !.heap[i].has_sub = FALSE, !.heap[i].sub = i,
                           !.inner[i] = EmptyInner]

\* RDFInner(initializer), as RepeatedFieldHelper.Append calls its converter:
\* the Inner value the new RDFInner wraps, or the ValueError of an initializer
\* RDFProto.__init__ does not know.  (A str initializer, which is parsed as
\* serialized bytes, is not among the items of the model.)
RDFInner_init(st, initializer) ==
  CASE initializer.t = "none" -> [ok |-> TRUE, c |-> EmptyInner]
    [] initializer.t \in {"proto", "rdfproto"} ->
         [ok |-> TRUE, c |-> st.inner[initializer.v[1]]]
    [] OTHER -> [ok |-> FALSE, c |-> EmptyInner]

\* The coerced value appended to the list of attr.
AppendTo(st, i, attr, coerced) ==
  IF attr = "subs" THEN [st EXCEPT !.heap[i].subs = Append(@, coerced)]
  ELSE [st EXCEPT !.heap[i].vals = Append(@, coerced)]

\* self.converter(rdf_value): RDFInner for subs (from rdf_map), int for vals
\* (from CONVERTERS); c is the element the coerced value puts into the list.
Convert(st, attr, rdf_value) ==
  IF attr = "subs" THEN RDFInner_init(st, rdf_value)
  ELSE Bind(PyIntOf(rdf_value), LAMBDA r : [ok |-> r.ok, c |-> r.v])

\* Append that puts the converter's default into the list before it raises.
RepeatedFieldHelper_Append_Default(st, i, attr, rdf_value) ==
  Bind(Convert(st, attr, rdf_value), LAMBDA r :
    Wrote(AppendTo(st, i, attr, r.c), IF r.ok THEN "none" ELSE "ValueError"))

\* RepeatedFieldHelper.Append(rdf_value) on the repeated field attr of message
\* i: coerce through the converter; a converter that is an RDFProto class has
\* its message merged into a new element, any other coerced value is appended.
RepeatedFieldHelper_Append(st, i, attr, rdf_value) ==
  Bind(Convert(st, attr, rdf_value), LAMBDA r :
    IF r.ok THEN Wrote(AppendTo(st, i, attr, r.c), "none")
    ELSE Wrote(st, "ValueError"))

\* "for item in value: helper.Append(item)" over the first n items: stops at
\* the first item that raises, with what was appended before it.
RECURSIVE AppendAll(_, _, _, _, _)
AppendAll(st, i, attr, items, n) ==
  IF n = 0 THEN Wrote(st, "none")
  ELSE Bind(AppendAll(st, i, attr, items, n - 1), LAMBDA r :
         IF r.exc # "none" THEN r
         ELSE RepeatedFieldHelper_Append(Stored(r), i, attr, items[n]))

\* The repeated branch without ClearField.
SetRepeated_NoClear(st, i, attr, value) ==
  IF Iterable(value)
  THEN Bind(Items(value), LAMBDA items : AppendAll(st, i, attr, items, Len(items)))
  ELSE Wrote(st, "TypeError")

\* The repeated branch that puts the field back as it was when an item is
\* refused.
SetRepeated_Atomic(st, i, attr, value) ==
  Bind(ClearField(st, i, attr), LAMBDA cleared :
    IF Iterable(value)
    THEN Bind(Items(value), LAMBDA items :
           Bind(AppendAll(cleared, i, attr, items, Len(items)), LAMBDA r :
             IF r.exc = "none" THEN r ELSE Wrote(st, r.exc)))
    ELSE Wrote(cleared, "TypeError"))

\* The repeated branch of __setattr__: ClearField, then Append of every item;
\* iterating a value that is not iterable is a TypeError.
SetRepeated(st, i, attr, value) ==
  Bind(ClearField(st, i, attr), LAMBDA cleared :
    IF Iterable(value)
    THEN Bind(Items(value), LAMBDA items : AppendAll(cleared, i, attr, items, Len(items)))
    ELSE Wrote(cleared, "TypeError"))

\* The nested-message branch storing a reference to the value's message.
SetNestedMessage_Reference(st, i, value, cleared) ==
  IF value.t \in {"proto", "rdfproto"}
  THEN Wrote([st EXCEPT !.heap[i].has_sub = TRUE, !.heap[i].sub = value.v[1]], "none")
  ELSE Wrote(st, "ValueError")

\* The nested-message branch of __setattr__: value.ToProto() for an RDFProto,
\* then nested_protobuf.CopyFrom(value), which clears the nested message and
\* merges value's fields into it.  A value that is no message of the nested
\* type raises inside the try and becomes a ValueError; cleared says whether
\* CopyFrom had cleared the nested message before it raised.
SetNestedMessage(st, i, value, cleared) ==
  IF value.t \in {"proto", "rdfproto"}
  THEN Wrote([st EXCEPT !.heap[i].has_sub = TRUE,
                        !.inner[st.heap[i].sub] = st.inner[value.v[1]]], "none")
  ELSE Wrote(IF cleared
             THEN [st EXCEPT !.heap[i].has_sub = TRUE,
                             !.inner[st.heap[i].sub] = EmptyInner]
             ELSE st, "ValueError")

\* The scalar branch of __setattr__: coerce with int, then assign.
SetScalar(st, i, value) ==
  Bind(PyIntOf(value), LAMBDA r :
    IF r.ok THEN Wrote([st EXCEPT !.heap[i].num = <<r.v>>], "none")
    ELSE Wrote(st, "ValueError"))

\* RDFProto.__setattr__(attr, value) for a field of the message i.
RDFProto_setattr(st, i, attr, value, cleared) ==
  IF value.t = "none" THEN Wrote(ClearField(st, i, attr), "none")
  ELSE IF IsRepeated(attr) THEN SetRepeated(st, i, attr, value)
  ELSE IF IsMessage(attr) THEN SetNestedMessage(st, i, value, cleared)
  ELSE SetScalar(st, i, value)

\* "for k, v in kwargs.items(): setattr(self, k, v)" over the first n keywords.
RECURSIVE SetAll(_, _, _, _)
SetAll(st, i, kwargs, n) ==
  IF n = 0 THEN Wrote(st, "none")
  ELSE Bind(SetAll(st, i, kwargs, n - 1), LAMBDA r :
         IF r.exc # "none" THEN r
         ELSE RDFProto_setattr(Stored(r), i, kwargs[n][1], kwargs[n][2], FALSE))

\* A new value with a message of its own, whatever the initializer.
RDFProto_init_Own(kind, initializerData, fresh) == fresh

\* The message a new RDFProto wraps: initializer._data when the initializer is
\* an RDFProto of the same class ("rdf"), the initializer when it is a native
\* message ("proto"), self._proto() otherwise.
RDFProto_init(kind, initializerData, fresh) ==
  IF kind \in {"rdf", "proto"} THEN initializerData ELSE fresh

\* RDFProto.SerializeToString of the value over message i.
RDFProto_SerializeToString(st, i) == Outer_SerializeToString(Content(st, i))

\* isinstance(other, cls) over the classes of the model: RDFOuter and
\* RDFInner are subclasses of RDFProto, a str is none of them.
IsInstance(otherCls, cls) ==
  otherCls \in {"RDFProto", "RDFOuter", "RDFInner"} /\ (otherCls = cls \/ cls = "RDFProto")

\* RDFProto.__eq__(self, other), each side its class and its serialization.
RDFProto_eq(selfCls, selfBytes, otherCls, otherBytes) ==
  IsInstance(otherCls, selfCls) /\ selfBytes = otherBytes

(***************************************************************************)
(* Bounds and the inputs drawn from them                                   *)
(***************************************************************************)

MaxText == 2
MaxInt == 11
MaxSegs == 2
MaxCount == 3
MaxVals == 2
MaxList == 2
MaxAge == 2

\* The sequences over S of length at most n.
RECURSIVE SeqsUpTo(_, _)
SeqsUpTo(S, n) ==
  IF n = 0 THEN {<<>>}
  ELSE Bind(SeqsUpTo(S, n - 1), LAMBDA shorter :
         shorter \cup {Append(q, e) : q \in {p \in shorter : Len(p) = n - 1}, e \in S})

\* "A" and e-acute: an ASCII and a non-ASCII character.
TextChars == {65, 233}

TextInits ==
  {PyStr(q) : q \in SeqsUpTo(TextChars, MaxText)}
  \cup {PyUnicode(q) : q \in SeqsUpTo(TextChars, MaxText)}

IntInits ==
  {PyInt(n) : n \in -1..MaxInt} \cup {PyStr(IntToStr(n)) : n \in -1..MaxInt}
  \cup {PyStr(<<>>), PyStr(<<65>>), PyUnicode(<<49>>)}

TimeInits ==
  {PyInt(n) : n \in 0..MaxInt} \cup {PyStr(IntToStr(n)) : n \in 0..MaxInt}

\* URN texts: an optional scheme, an optional leading "/" or "//h/", and up to
\* MaxSegs segments among a, b, ".", ".." and the empty one.
Segments == {<<"a">>, <<"b">>, DOT, DOTDOT, <<>>}

RelPaths == {PyJoin(q, SLASH) : q \in SeqsUpTo(Segments, MaxSegs)}

Prefixes == {<<>>, AFF4 \o <<":">>, <<"A", "f", "f", "4", ":">>, <<"x", ":">>}

Leads == {<<>>, SLASH, <<"/", "/", "h", "/">>}

URNTexts == {p \o l \o r : p \in Prefixes, l \in Leads, r \in RelPaths}

\* Values written to a scalar field and items put into a list of scalars: "2"
\* is a text int() reads, "x" one it does not.
ScalarValues == {PyInt(1), PyStr(<<50>>), PyStr(<<120>>)}

\* Values written to a message field and items put into a list of messages:
\* the caller's Inner, natively and wrapped, and values that are no Inner.
MessageValues == {NativeInner(CallerInner), RDFInnerOf(CallerInner), PyInt(1), RDFOuterOf(1)}

ItemsOf(attr) == IF IsMessage(attr) THEN MessageValues ELSE ScalarValues

\* What can be assigned to a field: None, and a value (scalar or nested
\* field) or a list of items, an int or a text (repeated field).
ValuesOf(attr) ==
  {PyNone}
  \cup (IF IsRepeated(attr)
        THEN {PyList(q) : q \in SeqsUpTo(ItemsOf(attr), MaxList)}
             \cup (IF attr = "vals" THEN {PyInt(1), PyStr(<<50, 49>>)} ELSE {PyInt(1)})
        ELSE ItemsOf(attr) \cup {PyList(<<>>)})

\* Keyword arguments of RDFOuter(...), in the order kwargs.items() yields
\* them: a sequence of <<name, value>> with no name twice.
KwValues(attr) ==
  CASE attr = "num" -> {PyInt(1), PyStr(<<50>>), PyStr(<<120>>)}
    [] attr = "vals" -> {PyList(<<>>), PyList(<<PyInt(1)>>), PyList(<<PyStr(<<50>>), PyInt(1)>>)}
    [] attr = "sub" -> {NativeInner(CallerInner)}
    [] OTHER -> {PyList(<<RDFInnerOf(CallerInner)>>)}

KwargSeqs ==
  {<<>>}
  \cup {<< <<a, x>> >> : a \in {"num"}, x \in KwValues("num")}
  \cup {<< <<a, x>> >> : a \in {"vals"}, x \in KwValues("vals")}
  \cup {<< <<a, x>> >> : a \in {"sub"}, x \in KwValues("sub")}
  \cup {<< <<a, x>> >> : a \in {"subs"}, x \in KwValues("subs")}
  \cup {<< <<"num", x>>, <<"vals", y>> >> : x \in KwValues("num"), y \in KwValues("vals")}
  \cup {<< <<"vals", y>>, <<"num", x>> >> : x \in KwValues("num"), y \in KwValues("vals")}

InnerValues == {EmptyInner, [x |-> <<1>>]}

(***************************************************************************)
(* State.                                                                  *)
(*   rt      a value on its way through serialize and parse, or a query    *)
(*           literal on its way through an operator of RDFDatetime         *)
(*   urn     an RDFURN; urn2 a second one (the result of Add, a copy)      *)
(*   uop     the last call on urn: its name, arguments and result          *)
(*   heap, inner   the Outer and Inner message objects                     *)
(*   wr      the RDFOuter values A and B: the message each wraps (_data),  *)
(*           its age, the value it was constructed from, if any, and the   *)
(*           keyword arguments it was built from and not written since     *)
(*   op      the last call on A or B: name, receiver, arguments, exception *)
(*   nested  per Outer message, whether its nested field was last assigned *)
(*           from the caller's Inner message                               *)
(***************************************************************************)

IdleRT == [cls |-> "none", phase |-> "idle"]

RootURN == RDFURN_ParseFromString(<<>>)

IdleURN ==
  /\ urn = RootURN
  /\ urn2 = RootURN
  /\ uop = [name |-> "init"]

FreshStore(m) ==
  [heap |-> [i \in MsgIds |-> EmptyOuter(i)],
   inner |-> [r \in MsgIds \cup {CallerInner} |-> IF r = CallerInner THEN m ELSE EmptyInner]]

Wrappers == {"A", "B"}

\* The keyword arguments a value was built from: not known, or their set.
NoKw == [known |-> FALSE, args |-> {}]
KwSet(kwargs) == [known |-> TRUE, args |-> {kwargs[k] : k \in 1..Len(kwargs)}]

Other(w) == IF w = "A" THEN "B" ELSE "A"

IdleProto ==
  /\ heap = FreshStore(EmptyInner).heap
  /\ inner = FreshStore(EmptyInner).inner
  /\ wr = [w \in Wrappers |-> [data |-> IF w = "A" THEN 1 ELSE 2, age |-> 1,
                                from |-> "none", kw |-> NoKw]]
  /\ op = [name |-> "init"]
  /\ nested = [i \in MsgIds |-> FALSE]

(***************************************************************************)
(* Round trips: an initializer is drawn, the value is constructed,         *)
(* serialized, and a fresh value is constructed from the bytes.            *)
(***************************************************************************)

RTClasses == ScalarClasses \cup {"RDFOuter", "RDFURN"}

\* An RDFOuter is drawn as its keyword arguments and the caller's Inner they
\* may name.
RTInits(cls) ==
  CASE cls \in {"RDFBytes", "RDFString", "RDFSHAValue"} -> TextInits
    [] cls = "RDFInteger" -> IntInits
    [] cls \in {"RDFDatetime", "RDFDatetimeSeconds"} -> TimeInits
    [] cls = "RDFURN" -> {PyStr(q) : q \in URNTexts}
    [] OTHER -> {[t |-> "kwargs", v |-> q, m |-> m] : q \in KwargSeqs, m \in InnerValues}

\* RDFOuter(**kwargs) on a new message: its content, or the exception.
NewOuter(initializer) ==
  Bind(SetAll(FreshStore(initializer.m), 1, initializer.v, Len(initializer.v)), LAMBDA r :
    IF r.exc = "none" THEN Done(Content(r, 1)) ELSE Failed(r.exc))

\* cls(initializer): the value, or the exception of the constructor.
New(cls, initializer) ==
  CASE cls \in ScalarClasses -> NewScalar(cls, initializer)
    [] cls = "RDFURN" -> Done(RDFURN_ParseFromString(initializer.v))
    [] OTHER -> NewOuter(initializer)

Serialize(cls, value) ==
  CASE cls \in ScalarClasses -> SerializeToString(cls, value)
    [] cls = "RDFURN" -> PyStr(RDFURN_SerializeToString(value))
    [] OTHER -> PyStr(Outer_SerializeToString(value))

\* cls(bytes)
Parse(cls, bytes) ==
  CASE cls \in ScalarClasses -> NewScalar(cls, bytes)
    [] cls = "RDFURN" -> Done(RDFURN_ParseFromString(bytes.v))
    [] OTHER -> Done(Outer_ParseFromString(bytes.v))

\* self == other for two values of the class cls.
ValueEq(cls, self, other) ==
  CASE cls \in ScalarClasses -> ScalarEq(self, other)
    [] cls = "RDFURN" -> self.string_urn = other.string_urn
    [] OTHER -> RDFProto_eq(cls, Outer_SerializeToString(self),
                            cls, Outer_SerializeToString(other))

InitRT ==
  /\ \E cls \in RTClasses : \E i \in RTInits(cls) :
       rt = [cls |-> cls, phase |-> "drawn", init |-> i]
  /\ IdleURN
  /\ IdleProto

RTConstruct ==
  /\ rt.phase = "drawn"
  /\ \E r \in {New(rt.cls, rt.init)} :
       rt' = IF r.ok THEN [cls |-> rt.cls, phase |-> "built", value |-> r.v]
             ELSE [cls |-> rt.cls, phase |-> "raised", init |-> rt.init]
  /\ UNCHANGED <<urnVars, protoVars>>

RTSerialize ==
  /\ rt.phase = "built"
  /\ rt' = [cls |-> rt.cls, phase |-> "serialized", value |-> rt.value,
            bytes |-> Serialize(rt.cls, rt.value)]
  /\ UNCHANGED <<urnVars, protoVars>>

RTParse ==
  /\ rt.phase = "serialized"
  /\ \E r \in {Parse(rt.cls, rt.bytes)} :
       rt' = [cls |-> rt.cls, phase |-> "parsed", value |-> rt.value,
              bytes |-> rt.bytes, ok |-> r.ok, fresh |-> r.v]
  /\ UNCHANGED <<urnVars, protoVars>>

NextRT == RTConstruct \/ RTSerialize \/ RTParse

SpecRT == InitRT /\ [][NextRT]_vars

\* C1: for every concrete type and every value v of it, a fresh instance
\* parsed from v.SerializeToString() compares equal to v.
C1_RoundTrip ==
  rt.phase = "parsed" => rt.ok /\ ValueEq(rt.cls, rt.fresh, rt.value)

(***************************************************************************)
(* RDFURN calls: urn is constructed from a text and then parsed anew,      *)
(* updated, added to, copied and split.  urn2 is the result of the last    *)
(* Add or copy; it is dropped (the root URN again) when urn is changed.    *)
(***************************************************************************)

\* Texts handed to Add: relative ones, fully qualified aff4 ones in two
\* spellings, one in another scheme, and the empty text.
AddTexts ==
  {<<"c">>, <<".", ".", "/", "c">>, <<"/", "a", "/", "/", "b">>, <<>>,
   AFF4 \o <<":", "/", "x">>, <<"A", "F", "F", "4", ":", "/", "x", "/", ".", ".", "/", "c">>,
   <<"x", ":", "/", "a">>}

\* Keyword arguments of Update: no keyword, or one component.
UpdateKwargs ==
  {<<>>}
  \cup {[c \in {"path"} |-> p] :
          p \in {<<"/", "a">>, <<"a", "/", "b">>, <<"/", "a", "/", "/", ".", ".", "/", "b">>}}
  \cup {[c \in {"scheme"} |-> s] : s \in {<<>>, <<"x">>}}

UpdateUrls == {<<>>, AFF4 \o <<":", "/", "b">>}

\* Texts handed to ParseFromString once the URN is there.
ParseTexts ==
  {p \o r : p \in Prefixes,
            r \in {<<>>, <<"/", "a">>, <<"/", "/", "h", "/", "a", "/", ".", ".", "/", "b">>}}

\* The non-empty segments of the path of u.
PathSegments(u) == FilterNonEmpty(PySplit(u.path, "/", -1))

InitURN ==
  /\ \E text \in URNTexts : urn = RDFURN_ParseFromString(text)
  /\ urn2 = RootURN
  /\ uop = [name |-> "new"]
  /\ rt = IdleRT
  /\ IdleProto

\* urn.ParseFromString(text)
URNParseFromString(text) ==
  /\ urn' = RDFURN_ParseFromString(text)
  /\ urn2' = RootURN
  /\ uop' = [name |-> "parse"]
  /\ UNCHANGED <<rt, protoVars>>

\* urn.Update(url, **kwargs)
URNUpdate(url, kwargs) ==
  /\ urn' = RDFURN_Update(urn, url, kwargs)
  /\ urn2' = RootURN
  /\ uop' = [name |-> "update", url |-> url, kwargs |-> kwargs]
  /\ UNCHANGED <<rt, protoVars>>

\* urn2 = urn.Add(text)
URNAdd(text) ==
  /\ Len(PathSegments(urn)) <= MaxSegs
  /\ urn2' = RDFURN_AddText(urn, text)
  /\ uop' = [name |-> "add", arg |-> text]
  /\ UNCHANGED <<urn, rt, protoVars>>

\* urn2 = urn.Add(urn2)
URNAddURN ==
  /\ urn2' = RDFURN_AddURN(urn, urn2)
  /\ uop' = [name |-> "addurn", arg |-> urn2]
  /\ UNCHANGED <<urn, rt, protoVars>>

\* urn = urn2: the calls go on from the result of Add.
URNChain ==
  /\ uop.name \in {"add", "addurn"}
  /\ urn' = urn2
  /\ urn2' = RootURN
  /\ uop' = [name |-> "chain"]
  /\ UNCHANGED <<rt, protoVars>>

\* urn2 = RDFURN(urn): _urn and _string_urn are taken over as they are.
URNCopyConstruct ==
  /\ urn2' = urn
  /\ uop' = [name |-> "copy"]
  /\ UNCHANGED <<urn, rt, protoVars>>

\* urn.Split(count); count = 0 is Split().
URNSplit(count) ==
  /\ uop' = [name |-> "split", count |-> count, result |-> RDFURN_Split(urn, count)]
  /\ UNCHANGED <<urn, urn2, rt, protoVars>>

NextURN ==
  \/ \E text \in ParseTexts : URNParseFromString(text)
  \/ \E url \in UpdateUrls, kwargs \in UpdateKwargs :
       (url = <<>> \/ kwargs = <<>>) /\ URNUpdate(url, kwargs)
  \/ \E text \in AddTexts : URNAdd(text)
  \/ URNAddURN
  \/ URNChain
  \/ URNCopyConstruct
  \/ \E count \in 0..MaxCount : URNSplit(count)

SpecURN == InitURN /\ [][NextURN]_vars

\* A path in normal form, read generously: no "." and no ".." segment, and no
\* empty segment but the one in front of a leading "/".
IsNormalPath(p) ==
  \/ p = SLASH
  \/ LET segs == PySplit(p, "/", -1)
     IN /\ segs[1] \notin {DOT, DOTDOT}
        /\ \A k \in 2..Len(segs) : segs[k] \notin {<<>>, DOT, DOTDOT}

\* C3: in every reachable state of an RDFURN (constructed from a text or from
\* another RDFURN, parsed anew, updated with any keyword, added to) the scheme
\* is not empty and the path is in normal form.
C3_SchemeAndPathNormal ==
  \A u \in {urn, urn2} : u.scheme # <<>> /\ IsNormalPath(u.path)

\* The segments a relative text adds: its own, "." and ".." resolved within it.
TextSegments(text) == Bind(PySplit(text, "/", -1), LAMBDA s : ResolveSegments(s, Len(s)))

\* result is self with text joined on as a suffix of the path.
JoinedOnto(self, text, result) ==
  PathSegments(result) = PathSegments(self) \o TextSegments(text)

StartsWith(s, prefix) == Len(s) >= Len(prefix) /\ SubSeq(s, 1, Len(prefix)) = prefix

\* C4: Add of a relative text (one with no scheme) returns a locator whose
\* path is the receiver's path joined with the text, so that Add("c") on
\* "aff4:/a/b" is "aff4:/a/b/c"; Add of a fully qualified "aff4:" text returns
\* the locator of that text whatever the receiver is, so that Add("aff4:/x") is
\* "aff4:/x"; Add of an RDFURN returns that RDFURN.
C4_Add ==
  [][/\ uop'.name = "addurn" => urn2' = uop'.arg
     /\ uop'.name = "add" =>
          /\ Find(uop'.arg, ":") = 0 => JoinedOnto(urn, uop'.arg, urn2')
          /\ StartsWith(uop'.arg, AFF4 \o <<":">>) =>
               urn2' = RDFURN_ParseFromString(uop'.arg)
          /\ (urn.string_urn = AFF4 \o <<":", "/", "a", "/", "b">> /\ uop'.arg = <<"c">>)
               => urn2'.string_urn = AFF4 \o <<":", "/", "a", "/", "b", "/", "c">>
          /\ uop'.arg = AFF4 \o <<":", "/", "x">>
               => urn2'.string_urn = AFF4 \o <<":", "/", "x">>]_vars

C4_Witness ==
  /\ uop.name = "add"
  /\ uop.arg = <<"c">>
  /\ urn.string_urn = AFF4 \o <<":", "/", "a", "/", "b">>
  /\ urn2.string_urn = AFF4 \o <<":", "/", "a", "/", "b", "/", "c">>

\* The scheme urlparse finds in a text handed to Add.
ParsedScheme(text) == UrlParse(text, <<>>).scheme

\* C5, as the claim has it: a text whose parsed scheme differs from "aff4" is
\* taken for a new absolute locator, any other text is joined onto a copy of
\* the receiver.
C5_AddSchemeDiffers ==
  [][uop'.name = "add" =>
       IF ParsedScheme(uop'.arg) # AFF4
       THEN urn2' = RDFURN_ParseFromString(uop'.arg)
       ELSE JoinedOnto(urn, uop'.arg, urn2')]_vars

\* C5, amended: a text whose parsed scheme is "aff4" is taken for a new
\* absolute locator, parsed from the text alone; any other text (no scheme, or
\* another scheme) is joined as a suffix onto a copy of the receiver, which
\* keeps the copy's scheme and network location.
C5_AddSchemeEquals ==
  [][uop'.name = "add" =>
       IF ParsedScheme(uop'.arg) = AFF4
       THEN urn2' = RDFURN_ParseFromString(uop'.arg)
       ELSE /\ JoinedOnto(urn, uop'.arg, urn2')
            /\ urn2'.scheme = RDFURN_Copy(urn).scheme
            /\ urn2'.netloc = RDFURN_Copy(urn).netloc]_vars

C5_Witness ==
  /\ uop.name = "add"
  /\ uop.arg = <<"x", ":", "/", "a">>
  /\ urn.string_urn = AFF4 \o <<":", "/", "a">>
  /\ urn2.string_urn = AFF4 \o <<":", "/", "a", "/", "x", ":", "/", "a">>

\* What Split(count) is to return for the segments segs: the first count - 1
\* of them, then the rest in one element, then "" up to count elements.
ExpectedSplit(segs, count) ==
  [k \in 1..count |->
     IF k > Len(segs) THEN <<>>
     ELSE IF k < count THEN segs[k]
     ELSE PyJoin(SubSeq(segs, count, Len(segs)), SLASH)]

\* C6: Split(count) for count >= 1 returns exactly count elements: the
\* non-empty segments of the path in order, those beyond the count-th unsplit
\* in the last element, "" added when there are fewer; Split() returns all the
\* non-empty segments.
C6_SplitCount ==
  uop.name = "split" =>
    IF uop.count >= 1
    THEN /\ Len(uop.result) = uop.count
         /\ uop.result = ExpectedSplit(PathSegments(urn), uop.count)
    ELSE uop.result = PathSegments(urn)

(***************************************************************************)
(* RDFProto calls on the values A and B.                                   *)
(***************************************************************************)

Store == [heap |-> heap, inner |-> inner]

\* The message a constructor makes before the new value has a name.
Scratch == 3

\* The store with one more, empty message.
WithScratch(st) ==
  [heap |-> [i \in MsgIds \cup {Scratch} |->
               IF i = Scratch THEN EmptyOuter(Scratch) ELSE st.heap[i]],
   inner |-> [r \in MsgIds \cup {Scratch, CallerInner} |->
                IF r = Scratch THEN EmptyInner ELSE st.inner[r]]]

\* The store once the constructor is over: the new message, if it is kept,
\* is found at slot, and the messages no value wraps any more are gone.
Settle(r, live, slot) ==
  [heap |-> [i \in MsgIds |->
               IF i = slot THEN [r.heap[Scratch] EXCEPT !.sub = i]
               ELSE IF i \in live THEN r.heap[i] ELSE EmptyOuter(i)],
   inner |-> [k \in MsgIds \cup {CallerInner} |->
                IF k = CallerInner THEN r.inner[k]
                ELSE IF k = slot THEN r.inner[r.heap[Scratch].sub]
                ELSE IF k \in live THEN r.inner[k] ELSE EmptyInner]]

\* Where a new message of w goes: where its old one was, or, when that one is
\* shared with the other value, the place that is free.
SlotFor(w) ==
  IF wr[w].data # wr[Other(w)].data THEN wr[w].data
  ELSE CHOOSE i \in MsgIds : i # wr[w].data

\* RDFProto.__init__ up to the keywords, on the store with the new message:
\* the initializer is the other value ("rdf"), its message ("proto"), its
\* serialization ("bytes"), None ("none"), or an int ("bad").
InitMessage(st, kind, target, bytes) ==
  CASE kind = "bytes" -> Wrote(WithContent(st, target, Outer_ParseFromString(bytes)), "none")
    [] kind = "bad" -> Wrote(st, "ValueError")
    [] OTHER -> Wrote(st, "none")

\* RDFProto.__init__(initializer, age, **kwargs) as far as the store goes.
Constructed(st, kind, target, bytes, kwargs) ==
  Bind(InitMessage(WithScratch(st), kind, target, bytes), LAMBDA r :
    IF r.exc # "none" THEN r ELSE SetAll(Stored(r), target, kwargs, Len(kwargs)))

\* The values over message i have been written to.
Written(i) == [v \in Wrappers |-> IF wr[v].data = i THEN [wr[v] EXCEPT !.kw = NoKw] ELSE wr[v]]

\* w = RDFOuter(initializer, age=age, **kwargs); w keeps its old value when
\* the constructor raises.
Construct(w, kind, age, kwargs) ==
  \E target \in {RDFProto_init(kind, wr[Other(w)].data, Scratch)} :
  \E r \in {Constructed(Store, kind, target,
                        RDFProto_SerializeToString(Store, wr[Other(w)].data), kwargs)} :
  \E data \in {IF target = Scratch THEN SlotFor(w) ELSE target} :
    /\ IF r.exc = "none"
       THEN /\ wr' = [wr EXCEPT
                        ![w] = [data |-> data,
                                age |-> IF kind = "rdf" THEN wr[Other(w)].age ELSE age,
                                from |-> IF kind = "rdf" THEN Other(w) ELSE "none",
                                kw |-> IF kind = "none" THEN KwSet(kwargs) ELSE NoKw],
                        ![Other(w)] = [@ EXCEPT !.from = "none",
                                                !.kw = IF target = Scratch THEN @ ELSE NoKw]]
            /\ \E s \in {Settle(r, {data, wr[Other(w)].data},
                                IF target = Scratch THEN data ELSE 0)} :
                 heap' = s.heap /\ inner' = s.inner
            /\ nested' = [i \in MsgIds |->
                            IF i = wr[Other(w)].data \/ (i = data /\ target # Scratch)
                            THEN nested[i] ELSE FALSE]
       ELSE /\ wr' = IF target = Scratch THEN wr ELSE Written(target)
            /\ \E s \in {Settle(r, MsgIds, 0)} : heap' = s.heap /\ inner' = s.inner
            /\ nested' = nested
    /\ op' = [name |-> "construct", w |-> w, kind |-> kind, exc |-> r.exc]
    /\ UNCHANGED <<rt, urnVars>>

\* setattr(w, attr, value)
SetAttr(w, attr, value, cleared) ==
  \E r \in {RDFProto_setattr(Store, wr[w].data, attr, value, cleared)} :
    /\ heap' = r.heap
    /\ inner' = r.inner
    /\ wr' = Written(wr[w].data)
    /\ nested' = [nested EXCEPT ![wr[w].data] =
                    IF attr = "sub"
                    THEN r.exc = "none" /\ value.t \in {"proto", "rdfproto"}
                    ELSE @]
    /\ op' = [name |-> "setattr", w |-> w, attr |-> attr, value |-> value, exc |-> r.exc]
    /\ UNCHANGED <<rt, urnVars>>

\* getattr(w, attr).Append(item)
HelperAppend(w, attr, item) ==
  /\ Len(heap[wr[w].data][attr]) < MaxVals
  /\ \E r \in {RepeatedFieldHelper_Append(Store, wr[w].data, attr, item)} :
       /\ heap' = r.heap
       /\ inner' = r.inner
       /\ op' = [name |-> "append", w |-> w, attr |-> attr, value |-> item, exc |-> r.exc]
  /\ wr' = Written(wr[w].data)
  /\ UNCHANGED <<nested, rt, urnVars>>

\* The caller sets a field of its own Inner message.
MutateM(m) ==
  /\ inner[CallerInner] # m
  /\ inner' = [inner EXCEPT ![CallerInner] = m]
  /\ op' = [name |-> "mutateM"]
  /\ UNCHANGED <<heap, wr, nested, rt, urnVars>>

\* What is compared: A, B, an RDFProto() of the base class, an RDFInner over
\* the caller's message, a str.
Comparands == {"A", "B", "base", "inner", "text"}

ClassOf(x) ==
  CASE x \in Wrappers -> "RDFOuter"
    [] x = "base" -> "RDFProto"
    [] x = "inner" -> "RDFInner"
    [] OTHER -> "str"

BytesOf(st, wrs, x) ==
  CASE x \in Wrappers -> RDFProto_SerializeToString(st, wrs[x].data)
    [] x = "inner" -> Inner_SerializeToString(st.inner[CallerInner])
    [] OTHER -> <<>>

\* self == other, self an RDFProto.
Compare(self, other) ==
  /\ op' = [name |-> "eq", self |-> self, other |-> other,
            result |-> RDFProto_eq(ClassOf(self), BytesOf(Store, wr, self),
                                   ClassOf(other), BytesOf(Store, wr, other))]
  /\ UNCHANGED <<heap, inner, wr, nested, rt, urnVars>>

InitProto ==
  /\ rt = IdleRT
  /\ IdleURN
  /\ IdleProto

\* One value, A, and all its fields.
NextMsg ==
  \/ \E attr \in Fields : \E value \in ValuesOf(attr) :
       \E cleared \in (IF attr = "sub" THEN BOOLEAN ELSE {FALSE}) :
         SetAttr("A", attr, value, cleared)
  \/ \E attr \in {"vals", "subs"} : \E item \in ItemsOf(attr) \cup {PyNone} :
       HelperAppend("A", attr, item)
  \/ \E m \in InnerValues : MutateM(m)

SpecMsg == InitProto /\ [][NextMsg]_vars

\* The list of the repeated field attr of the message of w.
FieldOf(h, w, attr) == h[wr[w].data][attr]

\* The fields of the message of w other than attr are what they were.
OthersKept(w, attr) ==
  /\ \A f \in {"num", "vals", "subs"} \ {attr} :
       heap'[wr[w].data][f] = heap[wr[w].data][f]
  /\ attr # "sub" =>
       /\ heap'[wr[w].data].has_sub = heap[wr[w].data].has_sub
       /\ inner'[heap'[wr[w].data].sub] = inner[heap[wr[w].data].sub]

\* C7: Append of an item the converter of the field accepts makes the list
\* longer by exactly one, the new last element being the coerced item and the
\* elements before it what they were (the text "2" is appended to a list of
\* integers as 2); Append of an item the converter cannot coerce (the text
\* "x", None or a message for int; an int or a message of another type for
\* RDFInner) raises ValueError and leaves the list, length and elements, as it
\* was.  In both cases the other fields are not touched.
C7_Append ==
  [][op'.name = "append" =>
       LET before == FieldOf(heap, op'.w, op'.attr)
           after == FieldOf(heap', op'.w, op'.attr)
           coerced == Convert(Store, op'.attr, op'.value)
       IN /\ IF coerced.ok
             THEN /\ op'.exc = "none"
                  /\ Len(after) = Len(before) + 1
                  /\ after[Len(after)] = coerced.c
                  /\ SubSeq(after, 1, Len(before)) = before
             ELSE /\ op'.exc = "ValueError"
                  /\ after = before
          /\ OthersKept(op'.w, op'.attr)
          /\ (op'.attr = "vals" /\ op'.value = PyStr(<<50>>)) => after[Len(after)] = 2
          /\ (op'.attr = "vals" /\ op'.value \in {PyStr(<<120>>), PyNone})
               => op'.exc = "ValueError"
          /\ (op'.attr = "subs" /\ op'.value \in {PyInt(1), RDFOuterOf(1)})
               => op'.exc = "ValueError"
          /\ (op'.attr = "subs" /\ op'.value = RDFInnerOf(CallerInner))
               => after[Len(after)] = inner[CallerInner]]_vars

C7_Witness ==
  /\ op.name = "append"
  /\ op.attr = "vals"
  /\ op.value = PyStr(<<120>>)
  /\ op.exc = "ValueError"
  /\ heap[wr["A"].data].vals = <<2>>

\* The message of w has nothing in its field attr.
IsCleared(h, n, w, attr) ==
  CASE attr = "num" -> h[wr[w].data].num = <<>>
    [] attr = "sub" -> ~h[wr[w].data].has_sub /\ n[h[wr[w].data].sub] = EmptyInner
    [] OTHER -> h[wr[w].data][attr] = <<>>

\* C9: a successful assignment of a sequence S to a repeated field leaves the
\* field holding exactly the coerced elements of S, in the order of S, whatever
\* it held before; assigning None to any field clears it.
C9_AssignRepeated ==
  [][op'.name = "setattr" =>
       /\ op'.value = PyNone =>
            op'.exc = "none" /\ IsCleared(heap', inner', op'.w, op'.attr)
       /\ (IsRepeated(op'.attr) /\ op'.value # PyNone /\ op'.exc = "none") =>
            LET S == Items(op'.value)
                after == FieldOf(heap', op'.w, op'.attr)
            IN /\ Len(after) = Len(S)
               /\ \A k \in 1..Len(S) : after[k] = Convert(Store, op'.attr, S[k]).c
       /\ OthersKept(op'.w, op'.attr)]_vars

C9_Witness ==
  /\ op.name = "setattr"
  /\ op.attr = "vals"
  /\ op.value = PyList(<<PyStr(<<50>>), PyInt(1)>>)
  /\ op.exc = "none"
  /\ heap[wr["A"].data].vals = <<2, 1>>

\* The nested message of the message of w, by value.
NestedOf(h, n, w) == n[h[wr[w].data].sub]

\* C10: assigning a message M, native or wrapped in an RDFProto, to a nested
\* message field copies M's fields into the owner's nested message: right
\* after the assignment the nested field is present and holds what M holds,
\* and when M, the message the caller holds, is changed afterwards the owner's
\* nested field stays as it is.  (M is a message of the caller's own, not the
\* owner's nested message itself.)  Assigning a value that is neither raises
\* ValueError.
C10_AssignNested ==
  [][/\ (op'.name = "setattr" /\ op'.attr = "sub" /\ op'.value # PyNone) =>
          IF op'.value.t \in {"proto", "rdfproto"}
          THEN /\ op'.exc = "none"
               /\ heap'[wr[op'.w].data].has_sub
               /\ NestedOf(heap', inner', op'.w) = inner[op'.value.v[1]]
               /\ inner'[CallerInner] = inner[CallerInner]
          ELSE op'.exc = "ValueError"
     /\ op'.name = "mutateM" =>
          \A w \in Wrappers :
            /\ NestedOf(heap', inner', w) = NestedOf(heap, inner, w)
            /\ heap'[wr[w].data].has_sub = heap[wr[w].data].has_sub]_vars

C10_Witness ==
  /\ op.name = "mutateM"
  /\ nested[wr["A"].data]
  /\ heap[wr["A"].data].has_sub
  /\ NestedOf(heap, inner, "A") = [x |-> <<1>>]
  /\ inner[CallerInner] = EmptyInner

(***************************************************************************)
(* Two values, A and B, constructed from each other, written and compared. *)
(***************************************************************************)

InitKinds == {"none", "rdf", "proto", "bytes", "bad"}

\* Keyword arguments of the constructors of A and B; num = "x" raises.
ShareKwargs ==
  {<<>>, << <<"num", PyInt(1)>> >>, << <<"num", PyStr(<<120>>)>> >>,
   << <<"num", PyInt(1)>>, <<"vals", PyList(<<PyInt(1)>>)>> >>,
   << <<"vals", PyList(<<PyInt(1)>>)>>, <<"num", PyInt(1)>> >>}

\* The keywords that go with each kind of initializer.
KwargsOf(kind) ==
  CASE kind = "none" -> ShareKwargs
    [] kind = "rdf" -> {q \in ShareKwargs : Len(q) <= 1}
    [] OTHER -> {<<>>}

ShareValues(attr) ==
  IF attr = "num" THEN {PyNone, PyInt(1)}
  ELSE {PyNone, PyList(<<PyInt(1)>>), PyList(<<PyInt(1), PyStr(<<120>>)>>)}

NextShare ==
  \/ \E w \in Wrappers : \E kind \in InitKinds : \E age \in 1..MaxAge :
       \E kwargs \in KwargsOf(kind) : Construct(w, kind, age, kwargs)
  \/ \E w \in Wrappers : \E attr \in {"num", "vals"} : \E value \in ShareValues(attr) :
       SetAttr(w, attr, value, FALSE)
  \/ \E m \in InnerValues : MutateM(m)
  \/ \E self \in Comparands \ {"text"} : \E other \in Comparands : Compare(self, other)

SpecShare == InitProto /\ [][NextShare]_vars

\* w was constructed from the value that is Other(w) now.
BuiltFromOther(wrs, w) == wrs[w].from = Other(w)

\* The bytes of x now and after the step.
Bytes(x) == BytesOf(Store, wr, x)
BytesAfter(x) == BytesOf([heap |-> heap', inner |-> inner'], wr', x)

\* C2: a value B constructed from a value A of its own class wraps A's
\* message and has A's age; from then on, whatever is written through A or
\* through B (the keywords of B's constructor among it), the two serialize to
\* the same bytes and compare equal, either way round.
C2_SharedMessage ==
  [][/\ (op'.name = "construct" /\ op'.kind = "rdf" /\ op'.exc = "none") =>
          /\ BuiltFromOther(wr', op'.w)
          /\ wr'[op'.w].data = wr[Other(op'.w)].data
          /\ wr'[op'.w].age = wr[Other(op'.w)].age
     /\ \A w \in Wrappers :
          BuiltFromOther(wr', w) =>
            /\ BytesAfter(w) = BytesAfter(Other(w))
            /\ (op'.name = "eq" /\ {op'.self, op'.other} = Wrappers) => op'.result]_vars

C2_Witness ==
  /\ BuiltFromOther(wr, "B")
  /\ op.name = "setattr"
  /\ op.w = "A"
  /\ op.exc = "none"
  /\ Bytes("B") = << <<1, <<1>> >> >>

\* other is an instance of the class of self or of a subclass of it.
InstanceOfClassOf(other, self) ==
  /\ other # "text"
  /\ ClassOf(other) = ClassOf(self) \/ self = "base"

\* C8, as the claim has it: two values compare equal exactly when they are of
\* the same class and their serialized bytes are equal; a value of another
\* type never compares equal.
C8_EqualIffSameTypeAndBytes ==
  op.name = "eq" =>
    (op.result <=> ClassOf(op.other) = ClassOf(op.self) /\ Bytes(op.other) = Bytes(op.self))

\* C8, as the code has it: two values of the same class compare equal exactly when their
\* serialized bytes are equal; two values built independently from the same
\* keyword arguments serialize to the same bytes, and a write that changes a
\* field of one of two values with equal bytes makes their bytes differ; a
\* value that is not an instance of the class of the left operand never
\* compares equal to it, while an instance of a subclass does when the bytes
\* are equal.
C8_EqualIffInstanceAndBytes ==
  [][/\ op'.name = "eq" =>
          (op'.result <=> /\ InstanceOfClassOf(op'.other, op'.self)
                          /\ BytesAfter(op'.other) = BytesAfter(op'.self))
     /\ (wr'["A"].kw.known /\ wr'["A"].kw = wr'["B"].kw) => BytesAfter("A") = BytesAfter("B")
     /\ (/\ op'.name \in {"setattr", "append"}
         /\ wr["A"].data # wr["B"].data
         /\ Bytes("A") = Bytes("B")
         /\ heap' # heap) => BytesAfter("A") # BytesAfter("B")]_vars

(***************************************************************************)
(* RepeatedFieldHelper.__eq__: the view of a repeated field of A against   *)
(* a list or against another view.                                         *)
(***************************************************************************)

\* An RDFInner that wraps an element of a list of messages, by its content.
RDFInnerWith(c) == [t |-> "rdfinner", v |-> <<c>>]
ViewOf(w, attr) == [t |-> "view", v |-> <<w, attr>>]

\* RepeatedFieldHelper.__getitem__(k): the converter applied to the k-th
\* element of the list, int for vals and RDFInner for subs.
RepeatedFieldHelper_getitem(st, i, attr, k) ==
  IF attr = "subs" THEN RDFInnerWith(st.heap[i].subs[k]) ELSE PyInt(st.heap[i].vals[k])

RepeatedFieldHelper_len(st, i, attr) == Len(st.heap[i][attr])

\* What iterating a view yields: __getitem__ of 0, 1, ... up to its length.
ViewItems(st, i, attr) ==
  [k \in 1..RepeatedFieldHelper_len(st, i, attr) |-> RepeatedFieldHelper_getitem(st, i, attr, k)]

\* What iterating other yields: the elements of a list as they are, the
\* converted elements of a view.
Yielded(st, wrs, other) ==
  IF other.t = "view" THEN ViewItems(st, wrs[other.v[1]].data, other.v[2]) ELSE other.v

\* The class and the serialization of an element that is a message value.
ElemClass(y) ==
  CASE y.t \in {"rdfinner", "rdfproto"} -> "RDFInner"
    [] y.t = "rdfouter" -> "RDFOuter"
    [] OTHER -> y.t

ElemBytes(st, y) ==
  CASE y.t = "rdfinner" -> Inner_SerializeToString(y.v[1])
    [] y.t = "rdfproto" -> Inner_SerializeToString(st.inner[y.v[1]])
    [] OTHER -> <<>>

\* x != y, x an element a view yields: an int against a primitive is Python's
\* comparison, an RDFInner goes through RDFProto.__ne__ (not self == other),
\* and an int against a message value ends in the reflected RDFProto.__ne__.
ElemNe(st, x, y) ==
  CASE x.t = "rdfinner" ->
         ~RDFProto_eq(ElemClass(x), ElemBytes(st, x), ElemClass(y), ElemBytes(st, y))
    [] y.t \in {"int", "str", "unicode"} -> ~PyEq(x, y)
    [] OTHER -> TRUE

Min(a, b) == IF a < b THEN a ELSE b

\* "for x, y in zip(self, other): if x != y: return False" over the first n
\* pairs: TRUE when the loop gets through them all.
RECURSIVE ZipLoop(_, _, _, _)
ZipLoop(st, xs, ys, n) ==
  IF n = 0 THEN TRUE
  ELSE Bind(ZipLoop(st, xs, ys, n - 1), LAMBDA r : r /\ ~ElemNe(st, xs[n], ys[n]))

\* The comparison that also wants the two lengths to be the same.
RepeatedFieldHelper_eq_SameLength(st, xs, ys) ==
  Len(xs) = Len(ys) /\ ZipLoop(st, xs, ys, Len(xs))

\* RepeatedFieldHelper.__eq__(self, other), xs and ys what the two sides
\* yield: zip stops at the shorter one.
RepeatedFieldHelper_eq(st, xs, ys) ==
  ZipLoop(st, xs, ys, Min(Len(xs), Len(ys)))

\* The lists a view is compared with: ints and a text for vals, the caller's
\* message wrapped and native for subs.
EqItems(attr) ==
  IF attr = "subs" THEN {RDFInnerOf(CallerInner), NativeInner(CallerInner)}
  ELSE {PyInt(1), PyInt(2), PyStr(<<50>>)}

EqOthers(attr) ==
  {PyList(q) : q \in SeqsUpTo(EqItems(attr), MaxList)}
  \cup {ViewOf("A", "vals"), ViewOf("A", "subs"), ViewOf("B", "vals")}

\* getattr(A, attr) == other
HelperEq(attr, other) ==
  /\ op' = [name |-> "heq", attr |-> attr, other |-> other,
            result |-> RepeatedFieldHelper_eq(Store,
                         ViewItems(Store, wr["A"].data, attr), Yielded(Store, wr, other))]
  /\ UNCHANGED <<heap, inner, wr, nested, rt, urnVars>>

\* What is assigned to the repeated fields before they are compared.
ViewValues(w, attr) ==
  IF w = "B" THEN {PyList(<<PyInt(1)>>), PyList(<<PyInt(1), PyStr(<<50>>)>>)}
  ELSE IF attr = "subs" THEN {PyNone, PyList(<<NativeInner(CallerInner)>>)}
  ELSE {PyNone, PyList(<<PyStr(<<50>>)>>), PyList(<<PyInt(1), PyStr(<<50>>)>>)}

NextView ==
  \/ \E attr \in {"vals", "subs"} : \E value \in ViewValues("A", attr) :
       SetAttr("A", attr, value, FALSE)
  \/ \E value \in ViewValues("B", "vals") : SetAttr("B", "vals", value, FALSE)
  \/ \E attr \in {"vals", "subs"} : \E item \in ItemsOf(attr) : HelperAppend("A", attr, item)
  \/ \E m \in InnerValues : MutateM(m)
  \/ \E attr \in {"vals", "subs"} : \E other \in EqOthers(attr) : HelperEq(attr, other)

SpecView == InitProto /\ [][NextView]_vars

\* The converter of attr applied to an element of the other side; an element
\* the converter refuses stays as it is.
Coerced(st, attr, y) ==
  IF y.t = "rdfinner" THEN y
  ELSE Bind(Convert(st, attr, y), LAMBDA r :
         IF ~r.ok THEN y ELSE IF attr = "subs" THEN RDFInnerWith(r.c) ELSE PyInt(r.c))

\* The pairs at the same index below the shorter length are all equal.
PairsEqual(st, xs, ys) ==
  \A k \in 1..Min(Len(xs), Len(ys)) : ~ElemNe(st, xs[k], ys[k])

CoercedAll(st, attr, ys) == [k \in 1..Len(ys) |-> Coerced(st, attr, ys[k])]

IsPrefix(xs, ys) == Len(xs) <= Len(ys) /\ xs = SubSeq(ys, 1, Len(xs))

\* C11, as the claim has it: the view equals another sequence exactly when,
\* both sides coerced through the converter, every pair of elements at the
\* same index below the shorter length is equal.
C11_EqCoercingBothSides ==
  op.name = "heq" =>
    (op.result <=>
       PairsEqual(Store, ViewItems(Store, wr["A"].data, op.attr),
                  CoercedAll(Store, op.attr, Yielded(Store, wr, op.other))))

\* C11, amended: the elements of the view are coerced through its converter,
\* the elements of the other sequence are taken as it yields them (coerced
\* only when it is a view itself); the view equals the other sequence exactly
\* when every pair of elements at the same index below the shorter length is
\* equal.  So a view equals every sequence it is a prefix of, and an empty
\* view equals every sequence.
C11_EqTruncating ==
  op.name = "heq" =>
    /\ op.result <=>
         PairsEqual(Store, ViewItems(Store, wr["A"].data, op.attr), Yielded(Store, wr, op.other))
    /\ IsPrefix(ViewItems(Store, wr["A"].data, op.attr), Yielded(Store, wr, op.other)) => op.result
    /\ RepeatedFieldHelper_len(Store, wr["A"].data, op.attr) = 0 => op.result

\* The view [1] of vals equals the longer list [1, 2].
C11_Witness ==
  /\ op.name = "heq"
  /\ op.attr = "vals"
  /\ heap[wr["A"].data].vals = <<1>>
  /\ op.other = PyList(<<PyInt(1), PyInt(2)>>)
  /\ op.result

(***************************************************************************)
(* RDFDatetime: human-readable literals and the query operators.           *)
(* A timestamp can be beyond the integers of the model checker, so the     *)
(* product with the converter is kept as its decimal digits.               *)
(***************************************************************************)

MICROSECONDS == 1000000

\* cls.converter
ConverterOf(cls) == IF cls = "RDFDatetimeSeconds" THEN 1 ELSE MICROSECONDS

IsLeap(y) == (y % 4 = 0 /\ y % 100 # 0) \/ y % 400 = 0

\* The leap years before y.
LeapsBefore(y) == ((y - 1) \div 4) - ((y - 1) \div 100) + ((y - 1) \div 400)

DaysBeforeYear(y) == 365 * (y - 1970) + LeapsBefore(y) - LeapsBefore(1970)

MonthDays(y) == <<31, IF IsLeap(y) THEN 29 ELSE 28, 31, 30, 31, 30, 31, 31, 30, 31, 30, 31>>

RECURSIVE DaysBeforeMonth(_, _)
DaysBeforeMonth(y, m) ==
  IF m = 1 THEN 0
  ELSE Bind(DaysBeforeMonth(y, m - 1), LAMBDA d : d + MonthDays(y)[m - 1])

\* calendar.timegm(d.utctimetuple()) of a datetime d in UTC.
TimeGm(d) ==
  Bind(DaysBeforeYear(d.year) + DaysBeforeMonth(d.year, d.month) + (d.day - 1), LAMBDA days :
    ((days * 24 + d.hour) * 60 + d.minute) * 60 + d.second)

\* The digits of n * c, c a power of ten.
RECURSIVE TimesDigits(_, _)
TimesDigits(n, c) ==
  IF c = 1 THEN DecDigits(n)
  ELSE IF n = 0 THEN <<48>>
  ELSE Bind(TimesDigits(n, c \div 10), LAMBDA d : d \o <<48>>)

PyLong(digits) == [t |-> "long", v |-> digits]

\* dateutil.parser.parse(string, default=default) for the literals of the
\* model, "YYYY" and "YYYY-MM-DD": the fields the text names replace those of
\* default, the others stay.
DateutilParse(string, default) ==
  IF Len(string) = 4
  THEN [default EXCEPT !.year = DecValue(string)]
  ELSE [default EXCEPT !.year = DecValue(SubSeq(string, 1, 4)),
                       !.month = DecValue(SubSeq(string, 6, 7)),
                       !.day = DecValue(SubSeq(string, 9, 10))]

\* ParseFromHumanReadable that never takes the end of the year.
RDFDatetime_ParseFromHumanReadable_NoEoy(cls, string, eoy, now) ==
  PyLong(TimesDigits(TimeGm(DateutilParse(string,
           [year |-> now, month |-> 1, day |-> 1, hour |-> 0, minute |-> 0, second |-> 0])),
         ConverterOf(cls)))

\* RDFDatetime.ParseFromHumanReadable(string, eoy); now is time.gmtime().tm_year.
RDFDatetime_ParseFromHumanReadable(cls, string, eoy, now) ==
  Bind(IF eoy
       THEN [year |-> now, month |-> 12, day |-> 31, hour |-> 23, minute |-> 59, second |-> 0]
       ELSE [year |-> now, month |-> 1, day |-> 1, hour |-> 0, minute |-> 0, second |-> 0],
       LAMBDA default :
         PyLong(TimesDigits(TimeGm(DateutilParse(string, default)), ConverterOf(cls))))

\* The predicate of the filter implementation an operator asks for, and its
\* argument.
Predicate(name, arg) == [predicate |-> name, arg |-> arg]

RDFDatetime_LessThanEq(cls, value, now) ==
  Predicate("PredicateLesserEqualFilter", RDFDatetime_ParseFromHumanReadable(cls, value, TRUE, now))

RDFDatetime_LessThan(cls, value, now) ==
  Predicate("PredicateLesserEqualFilter", RDFDatetime_ParseFromHumanReadable(cls, value, FALSE, now))

RDFDatetime_GreaterThanEq(cls, value, now) ==
  Predicate("PredicateGreaterEqualFilter", RDFDatetime_ParseFromHumanReadable(cls, value, FALSE, now))

RDFDatetime_GreaterThan(cls, value, now) ==
  Predicate("PredicateGreaterEqualFilter", RDFDatetime_ParseFromHumanReadable(cls, value, TRUE, now))

\* RDFDatetime.operators: the method behind each operator of the query language.
Operators == {"<", ">", "<=", ">="}

RDFDatetime_operator(opr, cls, value, now) ==
  CASE opr = "<" -> RDFDatetime_LessThan(cls, value, now)
    [] opr = ">" -> RDFDatetime_GreaterThan(cls, value, now)
    [] opr = "<=" -> RDFDatetime_LessThanEq(cls, value, now)
    [] opr = ">=" -> RDFDatetime_GreaterThanEq(cls, value, now)

\* The literals: years, and whole dates.
TwoDigits(n) == <<48 + (n \div 10), 48 + (n % 10)>>
DateText(y, m, d) == DecDigits(y) \o <<45>> \o TwoDigits(m) \o <<45>> \o TwoDigits(d)
Literals ==
  {DecDigits(y) : y \in {1970, 2000, 2019, 2020, 2021, 2037}}
  \cup {DateText(2020, 2, 29), DateText(1999, 12, 31), DateText(2021, 3, 1)}

\* The years the query is made in.
Nows == {2012, 2024}

InitQuery ==
  /\ \E cls \in {"RDFDatetime", "RDFDatetimeSeconds"} : \E opr \in Operators :
       \E value \in Literals : \E now \in Nows :
         rt = [cls |-> cls, phase |-> "literal", opr |-> opr, value |-> value, now |-> now]
  /\ IdleURN
  /\ IdleProto

\* The query engine calls the method of the operator on the literal.
QueryOperator ==
  /\ rt.phase = "literal"
  /\ \E r \in {RDFDatetime_operator(rt.opr, rt.cls, rt.value, rt.now)} :
       rt' = [rt EXCEPT !.phase = "queried"] @@ r
  /\ UNCHANGED <<urnVars, protoVars>>

NextQuery == QueryOperator

SpecQuery == InitQuery /\ [][NextQuery]_vars

\* The timestamp, in units of cls, of a moment given in UTC.
StampOf(cls, y, mo, d, h, mi) ==
  PyLong(TimesDigits(TimeGm([year |-> y, month |-> mo, day |-> d, hour |-> h,
                              minute |-> mi, second |-> 0]), ConverterOf(cls)))

\* The year of a literal that is a year, the year, month and day of one that
\* is a date.
IsYear(value) == Len(value) = 4
YearOf(value) == DecValue(SubSeq(value, 1, 4))

\* The moment a literal stands for: its own fields, and the first day of the
\* year at 00:00 (flag off) or the last at 23:59 (flag on) for the others.
Resolved(cls, value, eoy) ==
  IF IsYear(value)
  THEN IF eoy THEN StampOf(cls, YearOf(value), 12, 31, 23, 59)
       ELSE StampOf(cls, YearOf(value), 1, 1, 0, 0)
  ELSE StampOf(cls, YearOf(value), DecValue(SubSeq(value, 6, 7)), DecValue(SubSeq(value, 9, 10)),
               IF eoy THEN 23 ELSE 0, IF eoy THEN 59 ELSE 0)

\* 1577836800 and 1609459140 seconds after the epoch, in units of cls.
Stamp2020Start(cls) ==
  PyLong(<<49, 53, 55, 55, 56, 51, 54, 56, 48, 48>>
         \o (IF cls = "RDFDatetime" THEN <<48, 48, 48, 48, 48, 48>> ELSE <<>>))
Stamp2020End(cls) ==
  PyLong(<<49, 54, 48, 57, 52, 53, 57, 49, 52, 48>>
         \o (IF cls = "RDFDatetime" THEN <<48, 48, 48, 48, 48, 48>> ELSE <<>>))

RDFProto_Copy_Shared(st, i) ==
  Bind(WithScratch(st), LAMBDA s :
    [target |-> i, heap |-> s.heap, inner |-> s.inner, exc |-> "none"])

\* RDFValue.Copy: self.__class__(initializer=self.SerializeToString()).  The
\* initializer is a str, so RDFProto.__init__ keeps the message self._proto()
\* made and parses the bytes into it.
RDFProto_Copy(st, i) ==
  Bind(RDFProto_init("bytes", i, Scratch), LAMBDA target :
    Bind(Constructed(st, "bytes", target, RDFProto_SerializeToString(st, i), <<>>), LAMBDA r :
      [target |-> target, heap |-> r.heap, inner |-> r.inner, exc |-> r.exc]))

\* w = Other(w).Copy(); the age of the copy is the time of the call.
ProtoCopy(w, age) ==
  \E r \in {RDFProto_Copy(Store, wr[Other(w)].data)} :
  \E data \in {IF r.target = Scratch THEN SlotFor(w) ELSE r.target} :
    /\ wr' = [wr EXCEPT ![w] = [data |-> data, age |-> age, from |-> "copy", kw |-> NoKw],
                        ![Other(w)] = [@ EXCEPT !.from = "none"]]
    /\ \E s \in {Settle(r, {data, wr[Other(w)].data},
                        IF r.target = Scratch THEN data ELSE 0)} :
         heap' = s.heap /\ inner' = s.inner
    /\ nested' = [i \in MsgIds |->
                    IF i = wr[Other(w)].data \/ (i = data /\ r.target # Scratch)
                    THEN nested[i] ELSE FALSE]
    /\ op' = [name |-> "copy", w |-> w, exc |-> r.exc]
    /\ UNCHANGED <<rt, urnVars>>

\* What is written to the original and to the copy.
CopyValues(attr) ==
  CASE attr = "num" -> {PyNone, PyInt(1)}
    [] attr = "vals" -> {PyList(<<PyInt(1)>>)}
    [] OTHER -> {NativeInner(CallerInner)}

NextCopy ==
  \/ \E w \in Wrappers : \E age \in 1..MaxAge : ProtoCopy(w, age)
  \/ \E w \in Wrappers : \E attr \in {"num", "vals", "sub"} : \E value \in CopyValues(attr) :
       SetAttr(w, attr, value, FALSE)
  \/ \E w \in Wrappers : \E item \in {PyInt(1), PyStr(<<120>>)} : HelperAppend(w, "vals", item)

SpecCopy == InitProto /\ [][NextCopy]_vars

\* One of A and B was made by Copy() of the other and neither has been
\* constructed again since.
CopyPair(wrs) == \E w \in Wrappers : wrs[w].from = "copy"

\* C13: right after w = o.Copy() the copy has a message of its own, serializes
\* to the bytes of the original and compares equal to it, both ways; from then
\* on a field write or an append through one of the two leaves the serialized
\* bytes of the other as they were.
C13_CopyOwnsItsMessage ==
  [][/\ op'.name = "copy" =>
          /\ op'.exc = "none"
          /\ wr'[op'.w].data # wr'[Other(op'.w)].data
          /\ BytesAfter(op'.w) = BytesAfter(Other(op'.w))
          /\ BytesAfter(Other(op'.w)) = Bytes(Other(op'.w))
          /\ RDFProto_eq(ClassOf(op'.w), BytesAfter(op'.w),
                         ClassOf(Other(op'.w)), BytesAfter(Other(op'.w)))
          /\ RDFProto_eq(ClassOf(Other(op'.w)), BytesAfter(Other(op'.w)),
                         ClassOf(op'.w), BytesAfter(op'.w))
     /\ (op'.name \in {"setattr", "append"} /\ CopyPair(wr)) =>
          BytesAfter(Other(op'.w)) = Bytes(Other(op'.w))]_vars

\* B is a copy of A, made when A held vals = [1]; A has since
\* been given num = 1, and B still has none.
C13_Witness ==
  /\ wr["B"].from = "copy"
  /\ op.name = "setattr"
  /\ op.w = "A"
  /\ Bytes("A") = << <<1, <<1>> >>, <<2, <<1>> >> >>
  /\ Bytes("B") = << <<2, <<1>> >> >>

\* The indices of the items of S the converter of attr refuses.
Refused(st, attr, S) == {k \in 1..Len(S) : ~Convert(st, attr, S[k]).ok}

FirstRefused(st, attr, S) ==
  CHOOSE k \in Refused(st, attr, S) : \A j \in Refused(st, attr, S) : k <= j

\* C14: assigning a sequence to a repeated field fails exactly when the
\* converter refuses one of its elements, with ValueError; the field is then
\* left holding the coerced elements before the first refused one, in order,
\* and nothing of what it held before the assignment.
C14_AssignNotAtomic ==
  [][(op'.name = "setattr" /\ IsRepeated(op'.attr) /\ Iterable(op'.value)) =>
       LET S == Items(op'.value)
           after == FieldOf(heap', op'.w, op'.attr)
       IN /\ op'.exc = "ValueError" <=> Refused(Store, op'.attr, S) # {}
          /\ Refused(Store, op'.attr, S) # {} =>
               /\ Len(after) = FirstRefused(Store, op'.attr, S) - 1
               /\ \A j \in 1..Len(after) : after[j] = Convert(Store, op'.attr, S[j]).c]_vars

\* vals held [2]; assigning [1, "x"] has failed on "x" and left [1].
C14_Witness ==
  /\ op.name = "setattr"
  /\ op.attr = "vals"
  /\ op.value = PyList(<<PyInt(1), PyStr(<<120>>)>>)
  /\ op.exc = "ValueError"
  /\ heap[wr["A"].data].vals = <<1>>
====
